---- MODULE Spec2Model ----
(***************************************************************************)
(* Model of the bulk-send pipeline of the WhatsApp automation server:      *)
(* POST /api/send-bulk-message and GET /api/message-status/:operationId.   *)
(* A handler is suspended at each await; one action is the completion of   *)
(* the awaited call (success or failure) followed by the synchronous code  *)
(* up to the next await.  Two synchronous intermediate points are kept as  *)
(* states of their own: between the two counter assignments after the      *)
(* recipient lookup and between a counter increment and the decrement of   *)
(* pendingCount when one recipient's outcome is recorded.                  *)
(***************************************************************************)
EXTENDS Integers, Sequences, FiniteSets, TLC

\* ---------------------------------------------------------------- bounds
MaxUsers == 3

\* ------------------------------------------------------ program constants
MaxMessageLength == 1000

validRoles == {"karyakarta", "admin", "user", "manager"}

\* ------------------------------------------------------------ environment
\* The User collection: documents in natural order, user_id unique.
Directory ==
  [i \in 1..MaxUsers |->
     [user_id |-> i, user_role |-> IF i = 1 THEN "admin" ELSE "karyakarta"]]

\* Decoded target_roles arrays a request may carry: empty, one role, a
\* role matching nobody, a role outside the fixed set ("guest"), two
\* roles, a role outside the set next to a valid one, and a repeated role.
RoleLists ==
  {<<>>, <<"admin">>, <<"karyakarta">>, <<"user">>, <<"guest">>,
   <<"admin", "karyakarta">>, <<"admin", "guest">>,
   <<"karyakarta", "karyakarta">>}

\* req.body.target_roles as received: absent, text that is not JSON
\* (admin), JSON text of a non-array ("admin"), or JSON text of an array.
TargetRolesInputs ==
  {[kind |-> k, list |-> <<>>] : k \in {"absent", "text", "scalar"}}
    \cup {[kind |-> "array", list |-> l] : l \in RoleLists}

\* req.body.message_content: absent, or a string of a given length that is
\* all whitespace or not.
MessageInputs ==
  {[present |-> FALSE, len |-> 0, blank |-> TRUE],
   [present |-> TRUE, len |-> 0, blank |-> TRUE],
   [present |-> TRUE, len |-> 1, blank |-> TRUE],
   [present |-> TRUE, len |-> MaxMessageLength, blank |-> FALSE],
   [present |-> TRUE, len |-> MaxMessageLength + 1, blank |-> FALSE]}

\* req.body.include_user_image: absent (default false), a boolean (JSON
\* body) or a form-field string.
IncludeInputs == {"absent", "b:true", "b:false", "s:true", "s:false"}

Requests ==
  [target_roles : TargetRolesInputs, message_content : MessageInputs,
   include_user_image : IncludeInputs, posterFile : BOOLEAN]

NoRequest ==
  [target_roles |-> [kind |-> "absent", list |-> <<>>],
   message_content |-> [present |-> FALSE, len |-> 0, blank |-> TRUE],
   include_user_image |-> "absent", posterFile |-> FALSE]

\* Errors the external calls throw: message, transport-level code and
\* provider code ("none" when the error does not carry one). Codes are
\* written as the text the String-typed errorCode field stores; "0" is the
\* provider's numeric code 0 (AuthException).
ErrorsOf(call) ==
  CASE call = "download" ->
         {[message |-> "timeout of 30000ms exceeded", code |-> "ECONNABORTED",
           providerCode |-> "none"]}
    [] call = "compose" ->
         {[message |-> "Input buffer contains unsupported image format",
           code |-> "none", providerCode |-> "none"]}
    [] call = "upload" ->
         {[message |-> "S3 upload failed", code |-> "NetworkingError",
           providerCode |-> "none"]}
    [] call = "send" ->
         {[message |-> "Request failed with status code 400",
           code |-> "ERR_BAD_REQUEST", providerCode |-> "131030"],
          [message |-> "Request failed with status code 401",
           code |-> "ERR_BAD_REQUEST", providerCode |-> "0"]}
    [] OTHER ->
         {[message |-> "database error", code |-> "none",
           providerCode |-> "none"]}

\* ---------------------------------------------------------- pure helpers
\* JSON.parse(target_roles): throws on text that is not JSON.
JSONParse(tr) ==
  [ok |-> tr.kind # "text", isArray |-> tr.kind = "array", value |-> tr.list]

\* JavaScript truthiness of include_user_image.
Truthy(v) == v \in {"b:true", "s:true", "s:false"}

\* posterFile && include_user_image
Personalizing(r) == r.posterFile /\ Truthy(r.include_user_image)

invalidRoles(targetRoles) ==
  SelectSeq(targetRoles, LAMBDA role : role \notin validRoles)

\* Mutant: the length check is off by one.
TooLong_OffByOne(mc) == mc.len > MaxMessageLength + 1

\* message_content.length > 1000
TooLong(mc) == mc.len > MaxMessageLength

\* The validation block: the first failing check decides the outcome.
Validate(r) ==
  LET tr == r.target_roles
      mc == r.message_content
  IN  IF tr.kind = "absent"
        THEN [outcome |-> "reject", field |-> "target_roles"]
      ELSE IF ~JSONParse(tr).ok
        THEN [outcome |-> "throw", field |-> "none"]
      ELSE IF ~JSONParse(tr).isArray \/ Len(JSONParse(tr).value) = 0
        THEN [outcome |-> "reject", field |-> "target_roles"]
      ELSE IF ~mc.present \/ mc.len = 0 \/ mc.blank
        THEN [outcome |-> "reject", field |-> "message_content"]
      ELSE IF TooLong(mc)
        THEN [outcome |-> "reject", field |-> "message_content"]
      ELSE IF Len(invalidRoles(JSONParse(tr).value)) > 0
        THEN [outcome |-> "reject", field |-> "target_roles"]
      ELSE [outcome |-> "accept", field |-> "none"]

\* User.find({ user_role: { $in: targetRoles } })
FindUsers(targetRoles) ==
  SelectSeq(Directory,
            LAMBDA u : \E k \in 1..Len(targetRoles) : targetRoles[k] = u.user_role)

\* ------------------------------------------------------ operation record
NoOperation ==
  [status |-> "none",
   summary |-> [totalTargeted |-> 0, successCount |-> 0, failureCount |-> 0,
                pendingCount |-> 0, processingTimeSet |-> FALSE],
   results |-> <<>>, completedAtSet |-> FALSE]

\* new Operation({ operationId, status: 'processing', ... }) with the
\* schema defaults.
NewOperation == [NoOperation EXCEPT !.status = "processing"]

NoResult ==
  [userId |-> 0, status |-> "none", messageId |-> <<>>, error |-> "none",
   errorCode |-> "none", personalizedImageUrl |-> <<>>]

\* const userResult = { userId: ..., status: 'pending', attemptedAt: ... }
NewUserResult(user) == [NoResult EXCEPT !.userId = user.user_id, !.status = "pending"]

\* URL returned by uploadToS3 for the personalized image of a recipient.
PersonalizedUrl(h, user) == <<"personalized", h, user.user_id>>

\* JavaScript truthiness of an error's code: undefined, 0 and '' are falsy.
TruthyCode(c) == c \notin {"none", "0", ""}

ErrorCode(e) ==
  IF TruthyCode(e.providerCode) THEN e.providerCode
  ELSE IF TruthyCode(e.code) THEN e.code
  ELSE "UNKNOWN_ERROR"

\* whatsappResponse.data.messages[0].id for a message the provider accepted
MessageId(h, user) == <<"wamid", h, user.user_id>>

\* Mutant: the error message is not stored.
RecordFailure_NoError(ur, e) ==
  [ur EXCEPT !.status = "failed", !.errorCode = ErrorCode(e)]

\* Mutant: a failure is not counted.
CountFailure_Dropped(op) == op

\* Mutant: pendingCount is not decremented.
DecrementPending_Skipped(op) == op

\* Mutant: the result is pushed twice.
PushResult_Twice(rs, ur) == Append(Append(rs, ur), ur)

\* Mutant: the result is put in front of the list.
PushResult_Front(rs, ur) == <<ur>> \o rs

\* Mutant: the final update stores the results but leaves the status alone.
Finalize_StaysProcessing(op, rs) ==
  [op EXCEPT !.completedAtSet = TRUE, !.summary.processingTimeSet = TRUE,
             !.results = rs]

\* Mutant: the collected results are not stored in the record.
Finalize_NoResults(op, rs) ==
  [op EXCEPT !.status = "completed", !.completedAtSet = TRUE,
             !.summary.processingTimeSet = TRUE]

\* Mutant: the zero-recipient branch leaves the status alone.
CompleteEmpty_StaysProcessing(op) == [op EXCEPT !.completedAtSet = TRUE]

\* try block completed: status, message id, successCount++
RecordSuccess(ur, messageId) ==
  [ur EXCEPT !.status = "success", !.messageId = messageId]

CountSuccess(op) == [op EXCEPT !.summary.successCount = @ + 1]

\* catch block of the loop body: status, error, errorCode, failureCount++
RecordFailure(ur, e) ==
  [ur EXCEPT !.status = "failed", !.error = e.message, !.errorCode = ErrorCode(e)]

CountFailure(op) == [op EXCEPT !.summary.failureCount = @ + 1]

\* operation.summary.pendingCount--
DecrementPending(op) == [op EXCEPT !.summary.pendingCount = @ - 1]

\* results.push(userResult)
PushResult(rs, ur) == Append(rs, ur)

\* status 'completed', completedAt, processingTimeMs, results after the loop
Finalize(op, rs) ==
  [op EXCEPT !.status = "completed", !.completedAtSet = TRUE,
             !.summary.processingTimeSet = TRUE, !.results = rs]

\* the zero-recipient branch: status 'completed', completedAt
CompleteEmpty(op) == [op EXCEPT !.status = "completed", !.completedAtSet = TRUE]

\* Mutant: the outer catch sets the status but stamps nothing.
MarkFailed_NoStamp(op) == [op EXCEPT !.status = "failed"]

\* Mutant: the outer catch stamps the record but leaves its status.
MarkFailed_StaysProcessing(op) ==
  [op EXCEPT !.completedAtSet = TRUE, !.summary.processingTimeSet = TRUE]

\* the outer catch: status 'failed', completedAt, processingTimeMs
MarkFailed(op) ==
  [op EXCEPT !.status = "failed", !.completedAtSet = TRUE,
             !.summary.processingTimeSet = TRUE]

NoResponse == [status |-> 0, error |-> "none", details |-> "none"]
ValidationError(field) == [status |-> 400, error |-> "Validation Error", details |-> field]
NoUsersFound == [status |-> 404, error |-> "NO_USERS_FOUND", details |-> "none"]
InternalError == [status |-> 500, error |-> "Internal server error", details |-> "none"]
Success == [status |-> 200, error |-> "none", details |-> "none"]

\* ------------------------------------------------------------ positioning
\* Poster and overlay dimensions are multiples of DimStep up to
\* MaxDim * DimStep pixels.
MaxDim == 3
DimStep == 125

\* let top = 100; let left = 20; positionConfig.margin || 20
DefaultTop == 100
DefaultLeft == 20
DefaultMargin == 20

\* Numbers are kept in hundredths, which holds halves and percentages of
\* whole pixels exactly.
Scale == 100
Px(n) == n * Scale

\* A property that may be missing: undefined, or a number.
Undefined == [def |-> FALSE, val |-> 0]
Num(n) == [def |-> TRUE, val |-> n]

\* a || b on a number: undefined and 0 are falsy.
OrElse(a, b) == IF a.def /\ a.val # 0 THEN a.val ELSE b

Min(a, b) == IF a <= b THEN a ELSE b
Max(a, b) == IF a >= b THEN a ELSE b

\* Math.round of a number in hundredths: the nearest integer, halves up.
Round(x) == (x + 50) \div Scale

\* Mutant: no lower limit.
Clamp_NoFloor(v, hi) == Min(v, hi)

\* Mutant: no upper limit.
Clamp_NoCeiling(v, hi) == Max(0, v)

\* Math.max(0, Math.min(v, hi))
Clamp(v, hi) == Max(0, Min(v, hi))

Presets ==
  {"top-left", "top-center", "top-right", "center-left", "center",
   "center-right", "bottom-left", "bottom-center", "bottom-right"}

\* Mutant: a percentage is taken as pixels.
CustomValue_PixelsOnly(c, extent) == Px(c.val)

\* A coordinate of positionConfig.custom: undefined, a pixel number or a
\* percentage text such as '25%'.
CustomValue(c, extent) ==
  IF c.kind = "pct" THEN c.val * extent ELSE Px(c.val)

\* Mutant: custom is looked at before preset.
Branch_CustomFirst(preset, hasCustom, hasDirect) ==
  IF hasCustom THEN "custom"
  ELSE IF preset \notin {"none", ""} THEN "preset"
  ELSE IF hasDirect THEN "legacy"
  ELSE "default"

\* if (config.preset) ... else if (config.custom) ... else if (one of the
\* direct coordinates !== undefined) ...: the branch that resolves a
\* position. An absent preset ("none") and '' are falsy.
Branch(preset, hasCustom, hasDirect) ==
  IF preset \notin {"none", ""} THEN "preset"
  ELSE IF hasCustom THEN "custom"
  ELSE IF hasDirect THEN "legacy"
  ELSE "default"

calculateUserImagePosition(posterMetadata, userImageSize, positionConfig) ==
  LET posterWidth == posterMetadata.width
      posterHeight == posterMetadata.height
      userWidth == userImageSize.width
      userHeight == userImageSize.height
      margin == Px(OrElse(positionConfig.margin, DefaultMargin))
      centerTop == (posterHeight - userHeight) * (Scale \div 2)
      centerLeft == (posterWidth - userWidth) * (Scale \div 2)
      bottom == Px(posterHeight - userHeight) - margin
      right == Px(posterWidth - userWidth) - margin
      preset == positionConfig.preset
      custom == positionConfig.custom
      initial == [top |-> Px(DefaultTop), left |-> Px(DefaultLeft)]
      branch == Branch(preset, custom.present,
                       positionConfig.top.def \/ positionConfig.left.def)
      raw ==
        IF branch = "preset"
          THEN CASE preset = "top-left" -> [top |-> margin, left |-> margin]
                 [] preset = "top-center" -> [top |-> margin, left |-> centerLeft]
                 [] preset = "top-right" -> [top |-> margin, left |-> right]
                 [] preset = "center-left" -> [top |-> centerTop, left |-> margin]
                 [] preset = "center" -> [top |-> centerTop, left |-> centerLeft]
                 [] preset = "center-right" -> [top |-> centerTop, left |-> right]
                 [] preset = "bottom-left" -> [top |-> bottom, left |-> margin]
                 [] preset = "bottom-center" -> [top |-> bottom, left |-> centerLeft]
                 [] preset = "bottom-right" -> [top |-> bottom, left |-> right]
                 [] OTHER -> initial
        ELSE IF branch = "custom"
          THEN [top |-> IF custom.top.kind # "undefined"
                          THEN CustomValue(custom.top, posterHeight)
                          ELSE initial.top,
                left |-> IF custom.left.kind # "undefined"
                           THEN CustomValue(custom.left, posterWidth)
                           ELSE initial.left]
        ELSE IF branch = "legacy"
          THEN [top |-> Px(OrElse(positionConfig.top, DefaultTop)),
                left |-> Px(OrElse(positionConfig.left, DefaultLeft))]
        ELSE initial
  IN  [top |-> Round(Clamp(raw.top, Px(posterHeight - userHeight))),
       left |-> Round(Clamp(raw.left, Px(posterWidth - userWidth)))]

\* ---------------------------------------------------------- text position
\* let y = imageHeight - 50; textConfig.margin || 20; textConfig.fontSize || 40
DefaultTextRise == 50
DefaultTextMargin == 20
DefaultFontSize == 40

\* Mutant: the font size is not a lower limit of y.
ClampText_NoFont(x, y, fontSize, imageWidth, imageHeight) ==
  [x |-> Max(0, Min(x, Px(imageWidth))), y |-> Max(0, Min(y, Px(imageHeight)))]

\* x = Math.max(0, Math.min(x, imageWidth));
\* y = Math.max(fontSize, Math.min(y, imageHeight))
ClampText(x, y, fontSize, imageWidth, imageHeight) ==
  [x |-> Max(0, Min(x, Px(imageWidth))),
   y |-> Max(Px(fontSize), Min(y, Px(imageHeight)))]

\* if (custom.align) textAnchor = custom.align
CustomAnchor(custom, textAnchor) ==
  IF custom.align \notin {"none", ""} THEN custom.align ELSE textAnchor

calculateTextPosition(imageMetadata, textConfig) ==
  LET imageWidth == imageMetadata.width
      imageHeight == imageMetadata.height
      margin == Px(OrElse(textConfig.margin, DefaultTextMargin))
      fontSize == OrElse(textConfig.fontSize, DefaultFontSize)
      preset == textConfig.preset
      custom == textConfig.custom
      centerX == imageWidth * (Scale \div 2)
      centerY == imageHeight * (Scale \div 2)
      top == Px(fontSize) + margin
      bottom == Px(imageHeight) - margin
      right == Px(imageWidth) - margin
      initial == [x |-> centerX, y |-> Px(imageHeight - DefaultTextRise),
                  textAnchor |-> "middle"]
      branch == Branch(preset, custom.present, textConfig.x.def \/ textConfig.y.def)
      raw ==
        IF branch = "preset"
          THEN CASE preset = "top-left" -> [x |-> margin, y |-> top, textAnchor |-> "start"]
                 [] preset = "top-center" -> [x |-> centerX, y |-> top, textAnchor |-> "middle"]
                 [] preset = "top-right" -> [x |-> right, y |-> top, textAnchor |-> "end"]
                 [] preset = "center-left" -> [x |-> margin, y |-> centerY, textAnchor |-> "start"]
                 [] preset = "center" -> [x |-> centerX, y |-> centerY, textAnchor |-> "middle"]
                 [] preset = "center-right" -> [x |-> right, y |-> centerY, textAnchor |-> "end"]
                 [] preset = "bottom-left" -> [x |-> margin, y |-> bottom, textAnchor |-> "start"]
                 [] preset = "bottom-center" -> [x |-> centerX, y |-> bottom, textAnchor |-> "middle"]
                 [] preset = "bottom-right" -> [x |-> right, y |-> bottom, textAnchor |-> "end"]
                 [] OTHER -> [x |-> centerX, y |-> bottom, textAnchor |-> "middle"]
        ELSE IF branch = "custom"
          THEN [x |-> IF custom.x.kind # "undefined"
                        THEN CustomValue(custom.x, imageWidth) ELSE initial.x,
                y |-> IF custom.y.kind # "undefined"
                        THEN CustomValue(custom.y, imageHeight) ELSE initial.y,
                textAnchor |-> CustomAnchor(custom, initial.textAnchor)]
        ELSE IF branch = "legacy"
          THEN [x |-> IF textConfig.x.def /\ textConfig.x.val # 0
                        THEN Px(textConfig.x.val) ELSE initial.x,
                y |-> IF textConfig.y.def /\ textConfig.y.val # 0
                        THEN Px(textConfig.y.val) ELSE initial.y,
                textAnchor |-> IF textConfig.align \notin {"none", ""}
                                 THEN textConfig.align ELSE initial.textAnchor]
        ELSE initial
      clamped == ClampText(raw.x, raw.y, fontSize, imageWidth, imageHeight)
  IN  [x |-> Round(clamped.x), y |-> Round(clamped.y), textAnchor |-> raw.textAnchor]

\* --------------------------------------------------------- token manager
\* Most access tokens the OAuth endpoint issues in a run.
MaxRefresh == 2

\* Most forceRefresh calls in flight at once.
MaxForce == 2

\* Most /send-message requests in progress at once.
MaxSenders == 2

\* Most composite files written in a run.
MaxWrites == 11

\* Access tokens are numbered in the order the OAuth endpoint issues them;
\* token 0 is the one configured in .env. `issued` is the number of the
\* last token the endpoint returned.
\* new WhatsAppTokenManager(): currentToken = process.env.WHATSAPP_TOKEN,
\* tokenExpiryTime = null.
NewTokenManager ==
  [currentToken |-> 0, envToken |-> 0, tokenExpiryTime |-> 0, issued |-> 0]

\* A refresh that assigns the new token to the manager but not to
\* process.env.
Refreshed_EnvStale(m) ==
  [currentToken |-> m.issued + 1, envToken |-> m.envToken,
   tokenExpiryTime |-> m.issued + 1, issued |-> m.issued + 1]

\* refreshToken() when the exchange returned an access_token: currentToken,
\* tokenExpiryTime and process.env.WHATSAPP_TOKEN are assigned. Tokens are
\* numbered in the order they are issued; the expiry time of a token is
\* represented by the number of the token it belongs to (0: null).
Refreshed(m) ==
  [currentToken |-> m.issued + 1, envToken |-> m.issued + 1,
   tokenExpiryTime |-> m.issued + 1, issued |-> m.issued + 1]

\* getCurrentWhatsAppToken() catch branch: return process.env.WHATSAPP_TOKEN
FallbackToken(m) == m.envToken

\* --------------------------------------------------------------- payloads
\* Text-only message: body is message_content with the first {{name}}
\* replaced by user.user_name.
TextPayload(user) ==
  [to |-> user.user_id, type |-> "text", link |-> <<>>,
   text |-> <<"message_content", user.user_id>>]

\* Template message: header image link and body text user.user_name.
\* A template whose header image is the shared poster rather than the
\* recipient's own upload.
TemplatePayload_SharedPoster(user, personalizedImageUrl) ==
  [to |-> user.user_id, type |-> "template", link |-> <<"posters", "poster">>,
   text |-> <<"user_name", user.user_id>>]

TemplatePayload(user, personalizedImageUrl) ==
  [to |-> user.user_id, type |-> "template", link |-> personalizedImageUrl,
   text |-> <<"user_name", user.user_id>>]

\* ------------------------------------------------------------------ state
VARIABLES
  pc,            \* per handler: the await (or synchronous point) it is at
  req,           \* per handler: req.body and req.file
  operation,     \* per handler: the in-memory Operation document
  users,         \* per handler: result of User.find
  idx,           \* per handler: position of the for..of iterator
  results,       \* per handler: the local results array
  userResult,    \* per handler: userResult of the current iteration
  response,      \* per handler: what res.status(..).json(..) sent
  trace,         \* per handler: external calls completed, in order
  db,            \* the operations collection, by operationId
  queryResponse, \* response of the last status query
  operationId,   \* per handler: the operationId it generated (0: none yet)
  outbox,        \* per handler: the message requests issued to the provider
  manager,       \* the WhatsAppTokenManager instance and process.env
  monitor,       \* the token monitoring started by the constructor
  position,      \* a call of calculateUserImagePosition and its result
  refreshes,     \* forceRefresh calls in flight, outcome of the last refresh
  senders,       \* per /send-message request slot: its position and file
  publicDir,     \* the composite_ files of the public directory
  now            \* the clock that stamps file names and modification times

vars == <<pc, req, operation, users, idx, results, userResult, response,
          trace, db, queryResponse, operationId, outbox, manager, monitor,
          position, refreshes, senders, publicDir, now>>

\* State outside the submit handler and the operations collection.
\* State of the /send-message endpoint.
sendMessage == <<senders, publicDir, now>>

surroundings == <<manager, monitor, position, refreshes, sendMessage>>

Handlers == DOMAIN pc

\* No forceRefresh in flight and no refresh has returned yet.
NoRefreshes == [inflight |-> 0, last |-> "none"]

\* refreshToken() returned the new token (ok) or threw.
RefreshReturns(ok) ==
  refreshes' = [refreshes EXCEPT !.last = IF ok THEN "ok" ELSE "failed"]

\* The /send-message requests that can be in progress at once.
Slots == 1..MaxSenders

\* A slot with no request: position, the composite file it wrote (0: none),
\* its response and whether its cleanup ran to the end.
NoSender == [pc |-> "idle", file |-> 0, response |-> "none", cleanup |-> "none"]

Event(call, user, ok) == [call |-> call, user |-> user, ok |-> ok]

NoPosition == <<>>

NoQuery == [id |-> 0, status |-> 0, error |-> "none", data |-> NoOperation]

InitWith(H) ==
  /\ pc = [h \in H |-> "idle"]
  /\ req = [h \in H |-> NoRequest]
  /\ operation = [h \in H |-> NoOperation]
  /\ users = [h \in H |-> <<>>]
  /\ idx = [h \in H |-> 0]
  /\ results = [h \in H |-> <<>>]
  /\ userResult = [h \in H |-> NoResult]
  /\ response = [h \in H |-> NoResponse]
  /\ trace = [h \in H |-> <<>>]
  /\ db = <<>>
  /\ queryResponse = NoQuery
  /\ operationId = [h \in H |-> 0]
  /\ outbox = [h \in H |-> <<>>]
  /\ manager = NewTokenManager
  /\ monitor = "validating"
  /\ refreshes = NoRefreshes
  /\ senders = [s \in Slots |-> NoSender]
  /\ publicDir = {}
  /\ now = 0

Init == InitWith({1}) /\ position = NoPosition

\* Mutant: the id is taken from the number of stored operations.
NewOperationId_FromStore == Cardinality(DOMAIN db) + 1

\* `bulk_op_${Date.now()}_${uuidv4().substring(0, 8)}`: an id no earlier
\* operation was given.
NewOperationId == Cardinality({h \in Handlers : operationId[h] # 0}) + 1

\* operation.save(): the document is written under its operationId.
Saved(h, op) == (operationId[h] :> op) @@ db

\* ---------------------------------------------------- handler sub-steps
\* The outer catch block up to its await (or to the response when no
\* operation exists yet).
ErrorPath(h, op) ==
  IF op.status # "none"
    THEN /\ operation' = [operation EXCEPT ![h] = MarkFailed(op)]
         /\ pc' = [pc EXCEPT ![h] = "save_error"]
         /\ response' = response
    ELSE /\ operation' = [operation EXCEPT ![h] = op]
         /\ pc' = [pc EXCEPT ![h] = "done"]
         /\ response' = [response EXCEPT ![h] = InternalError]

\* Mutant: the token of the operation's first send is reused.
CurrentToken_Cached(h, m) ==
  IF Len(outbox[h]) > 0 THEN outbox[h][1].token ELSE m.currentToken

\* getCurrentToken(): return this.currentToken
CurrentToken(h, m) == m.currentToken

\* axios.post(.../messages, messagePayload, { headers: { Authorization:
\* `Bearer ${currentToken}` } }) is issued.
Post(h, payload, token) ==
  outbox' = [outbox EXCEPT ![h] = Append(@, [payload |-> payload, token |-> token,
                                             accepted |-> FALSE])]

\* The provider answered the current post with a 2xx status.
Accepted(h) == outbox' = [outbox EXCEPT ![h][Len(outbox[h])].accepted = TRUE]

\* const currentToken = await getCurrentWhatsAppToken(): when no expiry
\* time is known or it is not near, the token is read and the message is
\* posted in the same turn; otherwise refreshToken() is awaited first.
FetchTokenAndPost(h, payload) ==
  \/ /\ Post(h, payload, CurrentToken(h, manager))
     /\ pc' = [pc EXCEPT ![h] = "send"]
  \/ /\ manager.tokenExpiryTime # 0
     /\ outbox' = outbox
     /\ pc' = [pc EXCEPT ![h] = "refresh"]

\* Head of the for..of loop: start the next recipient or leave the loop
\* and run up to the final save.
LoopHead(h, op, rs) ==
  IF idx[h] < Len(users[h])
    THEN /\ idx' = [idx EXCEPT ![h] = @ + 1]
         /\ userResult' = [userResult EXCEPT ![h] = NewUserResult(users[h][idx[h] + 1])]
         /\ operation' = [operation EXCEPT ![h] = op]
         /\ results' = [results EXCEPT ![h] = rs]
         /\ IF Personalizing(req[h])
              THEN /\ pc' = [pc EXCEPT ![h] = "download"]
                   /\ outbox' = outbox
              ELSE FetchTokenAndPost(h, TextPayload(users[h][idx[h] + 1]))
    ELSE /\ idx' = idx
         /\ userResult' = userResult
         /\ operation' = [operation EXCEPT ![h] = Finalize(op, rs)]
         /\ results' = [results EXCEPT ![h] = rs]
         /\ pc' = [pc EXCEPT ![h] = "save_final"]
         /\ outbox' = outbox

\* The catch block of the loop body, up to failureCount++.
CatchUser(h, call, e) ==
  /\ userResult' = [userResult EXCEPT ![h] = RecordFailure(@, e)]
  /\ operation' = [operation EXCEPT ![h] = CountFailure(@)]
  /\ pc' = [pc EXCEPT ![h] = "rec_pending"]
  /\ trace' = [trace EXCEPT ![h] = Append(@, Event(call, idx[h], FALSE))]

Log(h, call, ok) == trace' = [trace EXCEPT ![h] = Append(@, Event(call, idx[h], ok))]

\* ---------------------------------------------------------------- actions
\* A request arrives: destructuring, validation and, for a valid request,
\* creation of the Operation document up to the first save.
SubmitFrom(R) ==
  \E h \in Handlers :
    /\ pc[h] = "idle"
    /\ \E r \in R :
         /\ req' = [req EXCEPT ![h] = r]
         /\ CASE Validate(r).outcome = "reject" ->
                   /\ response' = [response EXCEPT ![h] = ValidationError(Validate(r).field)]
                   /\ pc' = [pc EXCEPT ![h] = "done"]
                   /\ operation' = operation
              [] Validate(r).outcome = "throw" ->
                   ErrorPath(h, operation[h])
              [] OTHER ->
                   /\ operation' = [operation EXCEPT ![h] = NewOperation]
                   /\ pc' = [pc EXCEPT ![h] = "save_created"]
                   /\ response' = response
         /\ operationId' = [operationId EXCEPT ![h] =
                              IF Validate(r).outcome = "accept"
                                THEN NewOperationId ELSE @]
    /\ UNCHANGED <<users, idx, results, userResult, trace, db, queryResponse>>
    /\ UNCHANGED <<outbox, surroundings>>

Submit == SubmitFrom(Requests)

\* await operation.save() after creation
SaveCreated ==
  \E h \in Handlers :
    /\ pc[h] = "save_created"
    /\ \/ /\ db' = Saved(h, operation[h])
          /\ pc' = [pc EXCEPT ![h] = "find"]
          /\ Log(h, "save", TRUE)
          /\ UNCHANGED <<operation, response>>
       \/ /\ ErrorPath(h, operation[h])
          /\ Log(h, "save", FALSE)
          /\ db' = db
    /\ UNCHANGED <<req, users, idx, results, userResult, queryResponse>>
    /\ UNCHANGED <<operationId, outbox, surroundings>>

\* await User.find(...), then the zero-recipient branch or the assignment
\* of summary.totalTargeted
FindRecipients ==
  \E h \in Handlers :
    /\ pc[h] = "find"
    /\ \/ /\ users' = [users EXCEPT ![h] = FindUsers(JSONParse(req[h].target_roles).value)]
          /\ Log(h, "find", TRUE)
          /\ IF Len(users'[h]) = 0
               THEN /\ operation' = [operation EXCEPT ![h] = CompleteEmpty(@)]
                    /\ pc' = [pc EXCEPT ![h] = "save_empty"]
               ELSE /\ operation' = [operation EXCEPT
                                       ![h].summary.totalTargeted = Len(users'[h])]
                    /\ pc' = [pc EXCEPT ![h] = "set_pending"]
          /\ response' = response
       \/ /\ ErrorPath(h, operation[h])
          /\ Log(h, "find", FALSE)
          /\ users' = users
    /\ UNCHANGED <<req, idx, results, userResult, db, queryResponse>>
    /\ UNCHANGED <<operationId, outbox, surroundings>>

\* operation.summary.pendingCount = users.length, up to the save
SetPending ==
  \E h \in Handlers :
    /\ pc[h] = "set_pending"
    /\ operation' = [operation EXCEPT ![h].summary.pendingCount = Len(users[h])]
    /\ pc' = [pc EXCEPT ![h] = "save_count"]
    /\ UNCHANGED <<req, users, idx, results, userResult, response, trace, db,
                   queryResponse>>
    /\ UNCHANGED <<operationId, outbox, surroundings>>

\* await operation.save() in the zero-recipient branch, then the 404
SaveEmpty ==
  \E h \in Handlers :
    /\ pc[h] = "save_empty"
    /\ \/ /\ db' = Saved(h, operation[h])
          /\ response' = [response EXCEPT ![h] = NoUsersFound]
          /\ pc' = [pc EXCEPT ![h] = "done"]
          /\ Log(h, "save", TRUE)
          /\ operation' = operation
       \/ /\ ErrorPath(h, operation[h])
          /\ Log(h, "save", FALSE)
          /\ db' = db
    /\ UNCHANGED <<req, users, idx, results, userResult, queryResponse>>
    /\ UNCHANGED <<operationId, outbox, surroundings>>

\* await operation.save() of the recipient count, then the poster upload
\* or the first iteration of the loop
SaveCount ==
  \E h \in Handlers :
    /\ pc[h] = "save_count"
    /\ \/ /\ db' = Saved(h, operation[h])
          /\ Log(h, "save", TRUE)
          /\ IF Personalizing(req[h])
               THEN /\ pc' = [pc EXCEPT ![h] = "upload_poster"]
                    /\ UNCHANGED <<operation, idx, results, userResult, outbox>>
               ELSE LoopHead(h, operation[h], results[h])
          /\ response' = response
       \/ /\ ErrorPath(h, operation[h])
          /\ Log(h, "save", FALSE)
          /\ UNCHANGED <<db, idx, results, userResult, outbox>>
    /\ UNCHANGED <<req, users, queryResponse>>
    /\ UNCHANGED <<operationId, surroundings>>

\* await uploadToS3(posterFile.buffer, posterKey)
UploadPoster ==
  \E h \in Handlers :
    /\ pc[h] = "upload_poster"
    /\ \/ /\ LoopHead(h, operation[h], results[h])
          /\ Log(h, "uploadPoster", TRUE)
          /\ response' = response
       \/ /\ ErrorPath(h, operation[h])
          /\ Log(h, "uploadPoster", FALSE)
          /\ UNCHANGED <<idx, results, userResult, outbox>>
    /\ UNCHANGED <<req, users, db, queryResponse>>
    /\ UNCHANGED <<operationId, surroundings>>

\* await axios.get(user.user_image, ...)
Download ==
  \E h \in Handlers :
    /\ pc[h] = "download"
    /\ \/ /\ pc' = [pc EXCEPT ![h] = "compose"]
          /\ Log(h, "download", TRUE)
          /\ UNCHANGED <<operation, userResult>>
       \/ \E e \in ErrorsOf("download") : CatchUser(h, "download", e)
    /\ UNCHANGED <<req, users, idx, results, response, db, queryResponse>>
    /\ UNCHANGED <<operationId, outbox, surroundings>>

\* the sharp calls: metadata, resize, composite, text overlay
Compose ==
  \E h \in Handlers :
    /\ pc[h] = "compose"
    /\ \/ /\ pc' = [pc EXCEPT ![h] = "upload"]
          /\ Log(h, "compose", TRUE)
          /\ UNCHANGED <<operation, userResult>>
       \/ \E e \in ErrorsOf("compose") : CatchUser(h, "compose", e)
    /\ UNCHANGED <<req, users, idx, results, response, db, queryResponse>>
    /\ UNCHANGED <<operationId, outbox, surroundings>>

\* await uploadToS3(compositeImage, personalizedKey)
Upload ==
  \E h \in Handlers :
    /\ pc[h] = "upload"
    /\ \/ /\ userResult' = [userResult EXCEPT ![h].personalizedImageUrl =
                              PersonalizedUrl(h, users[h][idx[h]])]
          /\ FetchTokenAndPost(h, TemplatePayload(users[h][idx[h]],
                                                  userResult'[h].personalizedImageUrl))
          /\ Log(h, "upload", TRUE)
          /\ operation' = operation
       \/ /\ \E e \in ErrorsOf("upload") : CatchUser(h, "upload", e)
          /\ outbox' = outbox
    /\ UNCHANGED <<req, users, idx, results, response, db, queryResponse>>
    /\ UNCHANGED <<operationId, surroundings>>

\* await axios.post(.../messages, messagePayload, ...), then the rest of
\* the try block up to successCount++
Send ==
  \E h \in Handlers :
    /\ pc[h] = "send"
    /\ \/ /\ userResult' = [userResult EXCEPT
                              ![h] = RecordSuccess(@, MessageId(h, users[h][idx[h]]))]
          /\ operation' = [operation EXCEPT ![h] = CountSuccess(@)]
          /\ pc' = [pc EXCEPT ![h] = "rec_pending"]
          /\ Log(h, "send", TRUE)
          /\ Accepted(h)
       \/ /\ \E e \in ErrorsOf("send") : CatchUser(h, "send", e)
          /\ outbox' = outbox
    /\ UNCHANGED <<req, users, idx, results, response, db, queryResponse>>
    /\ UNCHANGED <<operationId, surroundings>>

\* pendingCount--, results.push(userResult), then the next iteration or
\* the code after the loop up to the final save
RecordPending ==
  \E h \in Handlers :
    /\ pc[h] = "rec_pending"
    /\ LoopHead(h, DecrementPending(operation[h]), PushResult(results[h], userResult[h]))
    /\ UNCHANGED <<req, users, response, trace, db, queryResponse>>
    /\ UNCHANGED <<operationId, surroundings>>

\* await operation.save() of the final state, then the 200 response
SaveFinal ==
  \E h \in Handlers :
    /\ pc[h] = "save_final"
    /\ \/ /\ db' = Saved(h, operation[h])
          /\ response' = [response EXCEPT ![h] = Success]
          /\ pc' = [pc EXCEPT ![h] = "done"]
          /\ Log(h, "save", TRUE)
          /\ operation' = operation
       \/ /\ ErrorPath(h, operation[h])
          /\ Log(h, "save", FALSE)
          /\ db' = db
    /\ UNCHANGED <<req, users, idx, results, userResult, queryResponse>>
    /\ UNCHANGED <<operationId, outbox, surroundings>>

\* await operation.save().catch(...) in the outer catch, then the 500
SaveError ==
  \E h \in Handlers :
    /\ pc[h] = "save_error"
    /\ \/ /\ db' = Saved(h, operation[h])
          /\ Log(h, "save", TRUE)
       \/ /\ db' = db
          /\ Log(h, "save", FALSE)
    /\ response' = [response EXCEPT ![h] = InternalError]
    /\ pc' = [pc EXCEPT ![h] = "done"]
    /\ UNCHANGED <<req, operation, users, idx, results, userResult, queryResponse>>
    /\ UNCHANGED <<operationId, outbox, surroundings>>

\* Mutant: an unknown id is answered like a known one.
GetStatus_AlwaysFound(id) ==
  [id |-> id, status |-> 200, error |-> "none",
   data |-> IF id \in DOMAIN db THEN db[id] ELSE NoOperation]

\* GET /api/message-status/:operationId when Operation.findOne returns
GetStatus(id) ==
  IF id \in DOMAIN db
    THEN [id |-> id, status |-> 200, error |-> "none", data |-> db[id]]
    ELSE [id |-> id, status |-> 404, error |-> "OPERATION_NOT_FOUND",
          data |-> NoOperation]

StatusQuery ==
  /\ \E id \in 0..Cardinality(Handlers) :
       \/ queryResponse' = GetStatus(id)
       \/ queryResponse' = [id |-> id, status |-> 500, error |-> "Database error",
                            data |-> NoOperation]
  /\ UNCHANGED <<pc, req, operation, users, idx, results, userResult, response,
                 trace, db, operationId, outbox, surroundings>>

Next ==
  \/ Submit
  \/ SaveCreated
  \/ FindRecipients
  \/ SetPending
  \/ SaveEmpty
  \/ SaveCount
  \/ UploadPoster
  \/ Download
  \/ Compose
  \/ Upload
  \/ Send
  \/ RecordPending
  \/ SaveFinal
  \/ SaveError
  \/ StatusQuery

Spec == Init /\ [][Next]_vars

\* ------------------------------------------------- vocabulary of the claims
N(h) == Len(users[h])

\* User.find has returned for this handler.
Resolved(h) == \E i \in 1..Len(trace[h]) : trace[h][i].call = "find" /\ trace[h][i].ok

RecipientCalls == {"download", "compose", "upload", "send"}

InLoop(h) == pc[h] \in RecipientCalls \cup {"rec_pending"}

\* Positions of the recipients for which some per-recipient call failed.
FailedSet(h) ==
  {k \in 1..N(h) : \E i \in 1..Len(trace[h]) :
     /\ trace[h][i].call \in RecipientCalls
     /\ trace[h][i].user = k
     /\ ~trace[h][i].ok}

SendsTo(h, k) ==
  {i \in 1..Len(trace[h]) : trace[h][i].call = "send" /\ trace[h][i].user = k}

Persisted(h) == operationId[h] \in DOMAIN db

Terminal(r) == r.status \in {"success", "failed"}

Counted(op, n) ==
  /\ Len(op.results) = n
  /\ op.summary.successCount + op.summary.failureCount = n
  /\ op.summary.totalTargeted = n
  /\ op.summary.pendingCount = 0

Balanced(op) ==
  op.summary.successCount + op.summary.failureCount + op.summary.pendingCount
    = op.summary.totalTargeted

\* Every resolved recipient has a terminal result in the list rs.
AllTerminal(h, rs) ==
  \A k \in 1..N(h) : \E i \in 1..Len(rs) :
     rs[i].userId = users[h][k].user_id /\ Terminal(rs[i])

\* C1: whenever an operation over N >= 1 resolved recipients has status
\* completed, in the handler's record as well as in the persisted one, its
\* result list has N entries, successCount + failureCount = N,
\* totalTargeted = N and pendingCount = 0.
C1_CountsAtCompletion ==
  \A h \in Handlers :
    /\ (operation[h].status = "completed" /\ N(h) >= 1)
         => Counted(operation[h], N(h))
    /\ (Persisted(h) /\ N(h) >= 1)
         => (db[operationId[h]].status = "completed" => Counted(db[operationId[h]], N(h)))

C1_Witness ==
  \E h \in Handlers :
    /\ pc[h] = "done" /\ response[h].status = 200
    /\ Persisted(h) /\ db[operationId[h]].status = "completed"
    /\ db[operationId[h]].summary.successCount >= 1 /\ db[operationId[h]].summary.failureCount >= 1

\* C2 (as stated): in every state of the record, the synchronous points
\* between the counter updates included, successCount + failureCount +
\* pendingCount = totalTargeted.
C2_BalancedInEveryState ==
  \A h \in Handlers : operation[h].status # "none" => Balanced(operation[h])

\* C2 (amended): the equation holds whenever the handler is suspended at
\* an await or has returned, and in every persisted record; it is broken
\* only inside the synchronous windows between the assignments of
\* totalTargeted and pendingCount and between a counter increment and the
\* decrement of pendingCount.
C2_BalancedAtAwaits ==
  /\ \A h \in Handlers :
       (operation[h].status # "none" /\ pc[h] \notin {"set_pending", "rec_pending"})
         => Balanced(operation[h])
  /\ \A id \in DOMAIN db : Balanced(db[id])

C2_Witness ==
  \E h \in Handlers :
    /\ pc[h] = "send" /\ idx[h] >= 2
    /\ operation[h].summary.successCount >= 1
    /\ operation[h].summary.pendingCount >= 1

\* C3 (as stated): once the recipients are resolved, the status is
\* completed or failed if and only if every resolved recipient has a
\* terminal result.
C3_TerminalIffAllResults ==
  \A h \in Handlers :
    Resolved(h) =>
      (operation[h].status \in {"completed", "failed"}
         <=> AllTerminal(h, operation[h].results))

\* C3 (amended): a completed operation has a terminal result for every
\* resolved recipient, and when every resolved recipient has a terminal
\* result the status is completed or failed (for the persisted record:
\* when there is at least one recipient); a record in status processing
\* has no results; but an operation can be failed with no recipient having
\* a result, when a step before the loop fails.
C3_CompletedImpliesAllResults ==
  \A h \in Handlers :
    Resolved(h) =>
      /\ operation[h].status = "completed" => AllTerminal(h, operation[h].results)
      /\ AllTerminal(h, operation[h].results)
           => operation[h].status \in {"completed", "failed"}
      /\ operation[h].status = "processing" => operation[h].results = <<>>
      /\ Persisted(h) =>
           /\ db[operationId[h]].status = "completed" => AllTerminal(h, db[operationId[h]].results)
           /\ (N(h) >= 1 /\ AllTerminal(h, db[operationId[h]].results))
                => db[operationId[h]].status \in {"completed", "failed"}
           /\ db[operationId[h]].status = "processing" => db[operationId[h]].results = <<>>

C3_Witness ==
  \E h \in Handlers :
    /\ pc[h] = "done" /\ N(h) >= 2
    /\ Persisted(h) /\ db[operationId[h]].status = "failed" /\ db[operationId[h]].results = <<>>

\* C4 (as stated): the status only moves forward along pending ->
\* processing -> completed|failed, and once the record's status is
\* completed or failed no later step of the handler changes its status,
\* summary or result list.
C4_TerminalIsFinal ==
  [][\A h \in Handlers :
       /\ operation[h].status \in {"completed", "failed"}
            => operation'[h] = operation[h]
       /\ operation[h].status = "processing"
            => operation'[h].status \in {"processing", "completed", "failed"}]_vars

\* The loop has run to its end: the handler is at the final save or has
\* answered 200.
LoopFinished(h) ==
  pc[h] = "save_final" \/ (pc[h] = "done" /\ response[h].status = 200)

LastEvent(h) == trace[h][Len(trace[h])]

\* C5: whatever subset F of the N recipients has a failing per-recipient
\* call, the failure is caught inside the loop (it never marks the
\* operation failed nor ends the handler), every recipient is processed,
\* and when the loop has ended the operation is completed with
\* failureCount = |F| and successCount = N - |F|; the results of the
\* recipients in F are failed with an error set, all others are success.
C5_PartialFailure ==
  \A h \in Handlers :
    /\ (trace[h] # <<>> /\ LastEvent(h).call \in RecipientCalls /\ ~LastEvent(h).ok)
         => (operation[h].status # "failed" /\ pc[h] \notin {"save_error", "done"})
    /\ LoopFinished(h) =>
         /\ operation[h].status = "completed"
         /\ Len(operation[h].results) = N(h)
         /\ operation[h].summary.failureCount = Cardinality(FailedSet(h))
         /\ operation[h].summary.successCount = N(h) - Cardinality(FailedSet(h))
         /\ \A k \in 1..N(h) :
              /\ \E i \in 1..Len(trace[h]) :
                   trace[h][i].user = k /\ trace[h][i].call \in RecipientCalls
              /\ IF k \in FailedSet(h)
                   THEN /\ operation[h].results[k].status = "failed"
                        /\ operation[h].results[k].error # "none"
                   ELSE operation[h].results[k].status = "success"
    /\ (pc[h] = "done" /\ response[h].status = 200)
         => (Persisted(h) /\ db[operationId[h]] = operation[h])

C5_Witness ==
  \E h \in Handlers :
    /\ pc[h] = "done" /\ response[h].status = 200
    /\ N(h) >= 2
    /\ FailedSet(h) = 1..N(h)
    /\ \E i \in 1..Len(trace[h]) : trace[h][i].call = "download" /\ ~trace[h][i].ok

\* C6: in a completed operation every result belongs to a resolved
\* recipient and every resolved recipient has exactly one result; at most
\* one send is attempted per recipient.
C6_OneResultPerRecipient ==
  \A h \in Handlers :
    /\ \A k \in 1..N(h) : Cardinality(SendsTo(h, k)) <= 1
    /\ \A op \in {operation[h]} \cup (IF Persisted(h) THEN {db[operationId[h]]} ELSE {}) :
         op.status = "completed" =>
           /\ \A i \in 1..Len(op.results) :
                \E k \in 1..N(h) : op.results[i].userId = users[h][k].user_id
           /\ \A k \in 1..N(h) :
                Cardinality({i \in 1..Len(op.results) :
                               op.results[i].userId = users[h][k].user_id}) = 1

C6_Witness ==
  \E h \in Handlers :
    /\ Persisted(h) /\ db[operationId[h]].status = "completed"
    /\ N(h) >= 2
    /\ \A k \in 1..N(h) : Cardinality(SendsTo(h, k)) = 1

\* C7: recipients are processed one at a time in resolver order: a call
\* for recipient k is made only when the outcomes of recipients 1..k-1 are
\* recorded, the calls appear in the order of the recipients, and the i-th
\* result of the completed operation is the outcome of the i-th recipient.
C7_SequentialInOrder ==
  \A h \in Handlers :
    /\ \A i \in 1..Len(trace[h]) :
         trace[h][i].call \in RecipientCalls =>
           /\ Len(results[h]) >= trace[h][i].user - 1
           /\ \A j \in 1..i :
                trace[h][j].call \in RecipientCalls
                  => trace[h][j].user <= trace[h][i].user
    /\ InLoop(h) => Len(results[h]) = idx[h] - 1
    /\ operation[h].status = "completed" =>
         \A i \in 1..Len(operation[h].results) :
           /\ i <= N(h)
           /\ operation[h].results[i].userId = users[h][i].user_id
           /\ operation[h].results[i].status = "failed" <=> i \in FailedSet(h)

C7_Witness ==
  \E h \in Handlers :
    /\ operation[h].status = "completed"
    /\ N(h) >= 3
    /\ operation[h].results[1].status = "failed"
    /\ operation[h].results[2].status = "success"

\* The requests C8 is about, in the words of the claim.
RoleListEmpty(r) == r.target_roles.kind = "array" /\ r.target_roles.list = <<>>

RoleOutsideSet(r) ==
  /\ r.target_roles.kind = "array"
  /\ \E k \in 1..Len(r.target_roles.list) :
       r.target_roles.list[k] \notin {"karyakarta", "admin", "user", "manager"}

BodyEmpty(r) ==
  \/ ~r.message_content.present
  \/ r.message_content.len = 0
  \/ r.message_content.blank

BodyTooLong(r) == r.message_content.present /\ r.message_content.len > 1000

\* C8: a request whose role list is empty or holds a role outside the
\* fixed set, or whose body is empty or longer than 1000 characters, is
\* answered with a failure without any side effect: no operation record in
\* memory or in the collection, no recipient lookup, no upload, no send.
C8_RejectedBeforeSideEffects ==
  \A h \in Handlers :
    (pc[h] # "idle" /\ (RoleListEmpty(req[h]) \/ RoleOutsideSet(req[h])
                          \/ BodyEmpty(req[h]) \/ BodyTooLong(req[h])))
      => /\ pc[h] = "done"
         /\ response[h].status \in {400, 500}
         /\ operation[h].status = "none"
         /\ ~Persisted(h)
         /\ trace[h] = <<>>
         /\ users[h] = <<>>

C8_Witness ==
  \E h \in Handlers :
    /\ pc[h] = "done"
    /\ req[h].target_roles = [kind |-> "array", list |-> <<"admin">>]
    /\ req[h].message_content.len = 1001
    /\ response[h] = ValidationError("message_content")

\* The role rule and the message rule of C9, in the words of the claim.
ViolatesRoleRule(r) ==
  \/ r.target_roles.kind \in {"absent", "text", "scalar"}
  \/ RoleListEmpty(r)
  \/ RoleOutsideSet(r)

ViolatesMessageRule(r) == BodyEmpty(r) \/ BodyTooLong(r)

\* C9 (as stated): every request that violates the role rule or the
\* message rule is answered 400 'Validation Error' with details naming a
\* violated field, never with an internal error.
C9_AlwaysValidationError ==
  \A h \in Handlers :
    (pc[h] = "done" /\ (ViolatesRoleRule(req[h]) \/ ViolatesMessageRule(req[h])))
      => /\ response[h].status = 400
         /\ response[h].error = "Validation Error"
         /\ \/ response[h].details = "target_roles" /\ ViolatesRoleRule(req[h])
            \/ response[h].details = "message_content" /\ ViolatesMessageRule(req[h])

\* The zero-recipient case of C10.
NoRecipients(h) == Resolved(h) /\ N(h) = 0

NoUploadNoSend(h) ==
  \A i \in 1..Len(trace[h]) :
    trace[h][i].call \notin {"uploadPoster", "upload", "send"}

CompletedAndEmpty(op) ==
  /\ op.status = "completed"
  /\ op.summary.totalTargeted = 0
  /\ op.summary.successCount = 0
  /\ op.summary.failureCount = 0
  /\ op.summary.pendingCount = 0
  /\ op.results = <<>>

\* C10 (as stated): when the roles match no recipient the call is answered
\* 404 NO_USERS_FOUND, a completed all-zero record with no results is
\* stored and returned by a status query for its id, and there was no
\* upload and no send.
C10_NoRecipientsIs404 ==
  \A h \in Handlers :
    (pc[h] = "done" /\ NoRecipients(h))
      => /\ response[h] = NoUsersFound
         /\ Persisted(h) /\ CompletedAndEmpty(db[operationId[h]])
         /\ GetStatus(h).status = 200 /\ GetStatus(h).data = db[operationId[h]]
         /\ NoUploadNoSend(h)

\* C10 (amended): when the roles match no recipient there is no upload
\* and no send; if the persist of the completed record succeeds the call
\* is answered 404 NO_USERS_FOUND and the stored record, which a status
\* query for its id returns, is completed with an all-zero summary and no
\* results; if that persist fails the call is answered 500 and the
\* handler's record is marked failed.
C10_NoRecipientsOutcome ==
  \A h \in Handlers :
    NoRecipients(h) =>
      /\ NoUploadNoSend(h)
      /\ pc[h] \in {"save_empty", "save_error", "done"}
      /\ pc[h] = "save_empty" => CompletedAndEmpty(operation[h])
      /\ pc[h] = "done" =>
           IF trace[h][3].ok
             THEN /\ response[h] = NoUsersFound
                  /\ Persisted(h) /\ CompletedAndEmpty(db[operationId[h]])
                  /\ GetStatus(h).status = 200 /\ GetStatus(h).data = db[operationId[h]]
             ELSE /\ response[h] = InternalError
                  /\ operation[h].status = "failed"

C10_Witness ==
  \E h \in Handlers :
    /\ NoRecipients(h) /\ pc[h] = "done"
    /\ response[h] = NoUsersFound
    /\ queryResponse.id = h /\ queryResponse.status = 200
    /\ CompletedAndEmpty(queryResponse.data)


\* The failures C11 is about: after the record was created and saved, the
\* recipient lookup, the save of the recipient count or the upload of the
\* shared poster throws.
PreLoopFailure(h) ==
  /\ Len(trace[h]) >= 2
  /\ trace[h][1].ok
  /\ \/ ~trace[h][2].ok
     \/ Len(trace[h]) >= 3 /\ N(h) >= 1 /\ ~trace[h][3].ok
     \/ Len(trace[h]) >= 4 /\ trace[h][4].call = "uploadPoster" /\ ~trace[h][4].ok

NoSend(h) == \A i \in 1..Len(trace[h]) : trace[h][i].call # "send"

FailedAndStamped(op) ==
  op.status = "failed" /\ op.completedAtSet /\ op.summary.processingTimeSet

\* C11 (as stated): after such a failure the operation is marked failed
\* with completion time and duration set, that state is persisted, an
\* error is returned to the caller and no message was sent.
C11_FailurePersisted ==
  \A h \in Handlers :
    (pc[h] = "done" /\ PreLoopFailure(h))
      => /\ FailedAndStamped(operation[h])
         /\ Persisted(h) /\ db[operationId[h]] = operation[h]
         /\ response[h].status >= 400
         /\ NoSend(h)

\* C11 (amended): after such a failure the handler's record is marked
\* failed with completion time and duration set, a persist of that state
\* is attempted and an error is returned to the caller whether or not that
\* persist succeeds, and no message was sent; the stored record is the
\* failed one if that persist succeeded and is still the one in status
\* processing if it did not.
C11_FailureMarked ==
  \A h \in Handlers :
    PreLoopFailure(h) =>
      /\ pc[h] \in {"save_error", "done"}
      /\ FailedAndStamped(operation[h])
      /\ NoSend(h)
      /\ pc[h] = "done" =>
           /\ response[h] = InternalError
           /\ LastEvent(h).call = "save"
           /\ Persisted(h)
           /\ IF LastEvent(h).ok
                THEN db[operationId[h]] = operation[h]
                ELSE db[operationId[h]].status = "processing"

C11_Witness ==
  \E h \in Handlers :
    /\ pc[h] = "done" /\ PreLoopFailure(h)
    /\ trace[h][Len(trace[h]) - 1].call = "uploadPoster"
    /\ N(h) >= 2
    /\ db[operationId[h]] = operation[h] /\ db[operationId[h]].status = "failed"


\* ------------------------------------------------------------- liveness
\* The steps of a handler after the request was accepted: each is the
\* completion of an external call, which returns or fails in finite time.
HandlerStep ==
  \/ SaveCreated
  \/ FindRecipients
  \/ SetPending
  \/ SaveEmpty
  \/ SaveCount
  \/ UploadPoster
  \/ Download
  \/ Compose
  \/ Upload
  \/ Send
  \/ RecordPending
  \/ SaveFinal
  \/ SaveError

\* The submit handler alone (status queries do not change any state it
\* reads), with every pending call completing eventually.
LiveSpec == Init /\ [][Submit \/ HandlerStep]_vars /\ WF_vars(HandlerStep)

Running == \E h \in Handlers : pc[h] \notin {"idle", "done"}

TerminalStatus(op) == op.status \in {"completed", "failed"}

\* C12 (as stated): once the handler has ended, the persisted record of
\* every operation has status completed or failed, whichever calls failed.
C12_PersistedTerminalAtEnd ==
  \A h \in Handlers :
    (pc[h] = "done" /\ Persisted(h)) => TerminalStatus(db[operationId[h]])

\* C12 (amended): every handler that accepted a request eventually ends,
\* and when it has ended it has returned a response; the persisted status
\* of a created operation is then completed or failed exactly when the
\* last persist the handler attempted succeeded, and when that persist
\* failed the stored record, if there is one, keeps status processing.
C12_EndsWithResponse ==
  /\ Running ~> ~Running
  /\ [](\A h \in Handlers :
          pc[h] = "done" =>
            /\ response[h].status # 0
            /\ operation[h].status # "none" =>
                 /\ LastEvent(h).call = "save"
                 /\ LastEvent(h).ok <=> (Persisted(h) /\ TerminalStatus(db[operationId[h]]))
                 /\ (~LastEvent(h).ok /\ Persisted(h)) => db[operationId[h]].status = "processing")

C12_Witness ==
  \E h \in Handlers :
    /\ pc[h] = "done" /\ N(h) >= 2
    /\ Len(trace[h]) >= 2
    /\ trace[h][Len(trace[h]) - 1] = Event("save", N(h), FALSE)
    /\ LastEvent(h) = Event("save", N(h), TRUE)
    /\ db[operationId[h]].status = "failed" /\ Len(db[operationId[h]].results) = N(h)


\* ---------------------------------------------------------- status query
Answered == queryResponse' # queryResponse

FoundAnswer(q) ==
  q.status = 200 /\ q.error = "none" /\ q.id \in DOMAIN db /\ q.data = db[q.id]

NotFoundAnswer(q) ==
  q.status = 404 /\ q.error = "OPERATION_NOT_FOUND" /\ q.id \notin DOMAIN db

DatabaseErrorAnswer(q) ==
  q.status = 500 /\ q.error = "Database error" /\ q.data = NoOperation

\* C13 (as stated): a status query answers with the stored record when one
\* exists for the id and with not-found otherwise.
C13_RecordOrNotFound ==
  [][Answered => (FoundAnswer(queryResponse') \/ NotFoundAnswer(queryResponse'))]_vars

\* C13 (amended): a status query never modifies a record; it answers with
\* the stored record when one exists, with not-found when none exists, or
\* with a 500 database error when the lookup itself fails; an answer that
\* carried a completed or failed record equals the stored record ever
\* after, so all successful queries after completion are identical.
C13_ReadOnlyQuery ==
  /\ [][Answered =>
          /\ db' = db /\ operation' = operation /\ results' = results
          /\ \/ FoundAnswer(queryResponse')
             \/ NotFoundAnswer(queryResponse')
             \/ DatabaseErrorAnswer(queryResponse')]_vars
  /\ [](queryResponse.status = 200 =>
          /\ queryResponse.id \in DOMAIN db
          /\ TerminalStatus(queryResponse.data) =>
               db[queryResponse.id] = queryResponse.data)

C13_Witness ==
  /\ queryResponse.status = 200
  /\ queryResponse.data.status = "completed"
  /\ Len(queryResponse.data.results) >= 2
  /\ \E h \in Handlers : operationId[h] = queryResponse.id /\ pc[h] = "done"
  /\ db[queryResponse.id] = queryResponse.data


\* ------------------------------------------------------------ error codes
ThrownErrors ==
  UNION {ErrorsOf(call) : call \in {"download", "compose", "upload", "send"}}

\* The code the precedence rule selects for an error: the provider's code
\* when the error carries one, else the transport code when it carries
\* one, else UNKNOWN_ERROR.
CodeByPrecedence(e) ==
  IF e.providerCode # "none" THEN e.providerCode
  ELSE IF e.code # "none" THEN e.code
  ELSE "UNKNOWN_ERROR"

FailedResults(h) == {i \in 1..Len(results[h]) : results[h][i].status = "failed"}

\* C14: the error code recorded for a failed attempt is the provider's code
\* if the error carries one, otherwise the transport-level code if it
\* carries one, otherwise UNKNOWN_ERROR; it is never empty, and exactly one
\* failure is counted per failed attempt.
C14_CodeByPrecedence ==
  \A h \in Handlers :
    /\ \A i \in FailedResults(h) :
         /\ results[h][i].errorCode \notin {"", "none"}
         /\ \E e \in ThrownErrors :
              /\ e.message = results[h][i].error
              /\ results[h][i].errorCode = CodeByPrecedence(e)
    /\ pc[h] \in {"download", "compose", "upload", "send", "save_final"} =>
         operation[h].summary.failureCount = Cardinality(FailedResults(h))


\* ----------------------------------------------------- token refreshing
\* Accepted requests with a poster: to all users, one sent as text and one
\* personalized, and one to a role nobody has.
BroadcastRequests ==
  {r \in Requests :
     /\ Validate(r).outcome = "accept"
     /\ r.posterFile
     /\ \/ /\ r.target_roles.list = <<"admin", "karyakarta">>
           /\ r.include_user_image \in {"absent", "b:true"}
        \/ /\ r.target_roles.list = <<"user">>
           /\ r.include_user_image = "absent"}

SubmitBroadcast == SubmitFrom(BroadcastRequests)

\* The payload built for the recipient of the current iteration.
MessagePayload(h) ==
  IF Personalizing(req[h])
    THEN TemplatePayload(users[h][idx[h]], userResult[h].personalizedImageUrl)
    ELSE TextPayload(users[h][idx[h]])

\* getCurrentToken() continues after await this.refreshToken(): on success
\* the new token is returned; when it throws, getCurrentWhatsAppToken
\* falls back to process.env.WHATSAPP_TOKEN. The message is posted in the
\* same turn.
RefreshForSend ==
  \E h \in Handlers :
    /\ pc[h] = "refresh"
    /\ \/ /\ manager.issued < MaxRefresh
          /\ manager' = Refreshed(manager)
          /\ Post(h, MessagePayload(h), CurrentToken(h, manager'))
          /\ RefreshReturns(TRUE)
       \/ /\ manager' = manager
          /\ Post(h, MessagePayload(h), FallbackToken(manager))
          /\ RefreshReturns(FALSE)
    /\ pc' = [pc EXCEPT ![h] = "send"]
    /\ UNCHANGED <<req, operation, users, idx, results, userResult, response,
                   trace, db, queryResponse, operationId, monitor, position,
                   sendMessage>>

\* The setInterval callback: validateAndRefreshToken() starts.
TimerTick ==
  /\ monitor = "idle"
  /\ monitor' = "validating"
  /\ UNCHANGED <<pc, req, operation, users, idx, results, userResult, response,
                 trace, db, queryResponse, operationId, outbox, manager, position,
                 refreshes, sendMessage>>

\* await this.validateCurrentToken() returns: valid, or any error but 401,
\* ends the check; 401 starts refreshToken().
ValidateCurrentToken ==
  /\ monitor = "validating"
  /\ monitor' \in {"idle", "refreshing"}
  /\ UNCHANGED <<pc, req, operation, users, idx, results, userResult, response,
                 trace, db, queryResponse, operationId, outbox, manager, position,
                 refreshes, sendMessage>>

\* await this.refreshToken() of the monitoring returns or throws.
MonitorRefresh ==
  /\ monitor = "refreshing"
  /\ \/ /\ manager.issued < MaxRefresh
        /\ manager' = Refreshed(manager)
        /\ RefreshReturns(TRUE)
     \/ /\ manager' = manager
        /\ RefreshReturns(FALSE)
  /\ monitor' = "idle"
  /\ UNCHANGED <<pc, req, operation, users, idx, results, userResult, response,
                 trace, db, queryResponse, operationId, outbox, position,
                 sendMessage>>

TokenNext ==
  \/ SubmitBroadcast
  \/ HandlerStep
  \/ RefreshForSend
  \/ TimerTick
  \/ ValidateCurrentToken
  \/ MonitorRefresh

TokenSpec == Init /\ [][TokenNext]_vars

\* C15: every message send of a bulk operation carries the token that is
\* the manager's current one at the moment the send is issued, so a send
\* issued after a refresh completed carries the refreshed token.
C15_SendUsesCurrentToken ==
  [][\A h \in Handlers :
       Len(outbox'[h]) > Len(outbox[h]) =>
         /\ Len(outbox'[h]) = Len(outbox[h]) + 1
         /\ outbox'[h][Len(outbox'[h])].token = manager'.currentToken
         /\ outbox'[h][Len(outbox'[h])].payload.to = users[h][idx'[h]].user_id
         /\ \A k \in 1..Len(outbox[h]) :
              outbox'[h][k] = outbox[h][k]]_vars

\* Recipient i was sent with the old token, a refresh completed, and
\* recipient i+1 was sent with the new one.
C15_Witness ==
  \E h \in Handlers :
    /\ Len(outbox[h]) >= 2
    /\ outbox[h][1].token = 0
    /\ outbox[h][2].token = 1
    /\ outbox[h][2].payload.to = outbox[h][1].payload.to + 1
    /\ manager.currentToken = 1


\* ---------------------------------------------------- concurrent handlers
\* Accepted requests: a text broadcast to the karyakartas, a personalized
\* message to the admin and a text broadcast to a role nobody has.
ConcurrentRequests ==
  {r \in Requests :
     /\ Validate(r).outcome = "accept"
     /\ \/ /\ r.target_roles.list \in {<<"karyakarta">>, <<"user">>}
           /\ ~r.posterFile
           /\ r.include_user_image = "absent"
        \/ /\ r.target_roles.list = <<"admin">>
           /\ r.posterFile
           /\ r.include_user_image = "b:true"}

SubmitConcurrent == SubmitFrom(ConcurrentRequests)

\* Two requests are being handled; their handlers interleave at every await.
ConcurrentInit == InitWith({1, 2}) /\ position = NoPosition

ConcurrentNext ==
  \/ SubmitConcurrent
  \/ HandlerStep

ConcurrentSpec == ConcurrentInit /\ [][ConcurrentNext]_vars

\* The recipients of handler h's request, as User.find returns them.
OwnRecipients(h) == FindUsers(JSONParse(req[h].target_roles).value)

Successes(h) ==
  {i \in 1..Len(trace[h]) : trace[h][i].call = "send" /\ trace[h][i].ok}

SendFailures(h) ==
  {i \in 1..Len(trace[h]) : trace[h][i].call \in RecipientCalls /\ ~trace[h][i].ok}

\* C16: with several bulk operations in progress, every operation has an
\* id distinct from all others, a stored record is written only by the
\* handler that created it and with that handler's own document, each
\* handler's counters and results reflect only the outcomes of its own
\* recipients, and each completed operation has successCount +
\* failureCount equal to its own recipient count.
C16_OperationsIsolated ==
  /\ [](\A h \in Handlers :
          /\ \A g \in Handlers \ {h} :
               operationId[h] # 0 => operationId[h] # operationId[g]
          /\ Resolved(h) => users[h] = OwnRecipients(h)
          /\ \A i \in 1..Len(results[h]) :
               results[h][i].userId = OwnRecipients(h)[i].user_id
          /\ \A i \in 1..Len(outbox[h]) :
               \E k \in 1..Len(OwnRecipients(h)) :
                 outbox[h][i].payload.to = OwnRecipients(h)[k].user_id
          /\ pc[h] \in {"send", "save_final", "done"} =>
               /\ operation[h].summary.successCount = Cardinality(Successes(h))
               /\ operation[h].summary.failureCount = Cardinality(SendFailures(h))
          /\ operation[h].status = "completed" =>
               /\ operation[h].summary.successCount
                    + operation[h].summary.failureCount = Len(OwnRecipients(h))
               /\ Len(operation[h].results) = Len(OwnRecipients(h))
          /\ (pc[h] = "done" /\ response[h] = Success) =>
               db[operationId[h]] = operation[h])
  /\ [][\A id \in DOMAIN db' :
          (id \notin DOMAIN db \/ db'[id] # db[id]) =>
            \E h \in Handlers :
              /\ operationId[h] = id
              /\ pc[h] \in {"save_created", "save_empty", "save_count",
                            "save_final", "save_error"}
              /\ pc'[h] # pc[h]
              /\ db'[id] = operation[h]]_vars

\* Both operations completed after interleaving, one with a failed send,
\* the other without.
C16_Witness ==
  /\ Handlers = {1, 2}
  /\ \A h \in Handlers : pc[h] = "done" /\ response[h] = Success
  /\ operationId[1] = 2 /\ operationId[2] = 1
  /\ N(1) = 1 /\ N(2) >= 2
  /\ db[operationId[1]].summary.failureCount = 1
  /\ db[operationId[2]].summary.successCount = N(2)


\* ------------------------------------------------------------ message kind
\* include_user_image is false or absent, as a boolean or as form text.
FlagOff(r) == r.include_user_image \in {"absent", "b:false", "s:false"}

ImageCalls(h) ==
  {i \in 1..Len(trace[h]) :
     trace[h][i].call \in {"uploadPoster", "download", "compose", "upload"}}

\* C17: when include_user_image is false or absent, however it was encoded,
\* no image is downloaded, composed or uploaded and every recipient is sent
\* a text message with the message content personalized by the recipient's
\* name; when the operation personalizes, every recipient is sent the
\* template message whose header is that recipient's image URL and whose
\* body is that recipient's name.
C17_KindByFlag ==
  \A h \in Handlers :
    /\ FlagOff(req[h]) =>
         /\ ImageCalls(h) = {}
         /\ \A i \in 1..Len(outbox[h]) :
              outbox[h][i].payload = TextPayload(users[h][i])
    /\ (~FlagOff(req[h]) /\ req[h].posterFile) =>
         \A i \in 1..Len(outbox[h]) :
           \E k \in 1..Len(users[h]) :
             outbox[h][i].payload =
               TemplatePayload(users[h][k], PersonalizedUrl(h, users[h][k]))


\* ------------------------------------------------------ overlay position
Dims == {k * DimStep : k \in 1..MaxDim}

Sizes == [width : Dims, height : Dims]

Margins == {Undefined, Num(0), Num(15), Num(20), Num(200)}

NoCustom ==
  [present |-> FALSE, top |-> [kind |-> "undefined", val |-> 0],
   left |-> [kind |-> "undefined", val |-> 0]]

CustomValues ==
  {[kind |-> "undefined", val |-> 0]}
    \cup {[kind |-> "px", val |-> v] : v \in {-10, 0, 150}}
    \cup {[kind |-> "pct", val |-> v] : v \in {25, 150}}

LegacyValues == {Undefined, Num(0), Num(50), Num(500)}

\* { preset, margin } with one of the nine presets or an unknown one
PresetConfigs ==
  {[preset |-> p, margin |-> m, custom |-> NoCustom, top |-> Undefined,
    left |-> Undefined] : p \in Presets \cup {"diagonal"}, m \in Margins}

\* { custom: { top, left } }
CustomConfigs ==
  {[preset |-> "none", margin |-> Undefined,
    custom |-> [present |-> TRUE, top |-> t, left |-> l],
    top |-> Undefined, left |-> Undefined] : t \in CustomValues, l \in CustomValues}

\* { top, left }, at least one of them given, and {}
LegacyConfigs ==
  {[preset |-> "none", margin |-> Undefined, custom |-> NoCustom,
    top |-> t, left |-> l] : t \in LegacyValues, l \in LegacyValues}

SomeCustom ==
  [present |-> TRUE, top |-> [kind |-> "pct", val |-> 25],
   left |-> [kind |-> "px", val |-> 150]]

\* Specifications that carry more than one set of fields.
MixedConfigs ==
  {[preset |-> p, margin |-> Num(15), custom |-> c, top |-> t, left |-> Num(50)] :
     p \in {"none", "center", "diagonal"}, c \in {NoCustom, SomeCustom},
     t \in {Undefined, Num(0)}}

PositionConfigs ==
  PresetConfigs \cup CustomConfigs \cup LegacyConfigs \cup MixedConfigs

\* A call of calculateUserImagePosition about to be made.
PositionInit ==
  /\ InitWith({1})
  /\ \E pm \in Sizes, us \in Sizes, cfg \in PositionConfigs :
       position = [posterMetadata |-> pm, userImageSize |-> us,
                   positionConfig |-> cfg, returned |-> FALSE,
                   result |-> [top |-> 0, left |-> 0]]

Calculate ==
  /\ position # NoPosition
  /\ ~position.returned
  /\ position' = [position EXCEPT
                    !.returned = TRUE,
                    !.result = calculateUserImagePosition(
                                 position.posterMetadata, position.userImageSize,
                                 position.positionConfig)]
  /\ UNCHANGED <<pc, req, operation, users, idx, results, userResult, response,
                 trace, db, queryResponse, operationId, outbox, manager, monitor,
                 refreshes, sendMessage>>

PositionSpec == PositionInit /\ [][Calculate]_vars

RoomTop == position.posterMetadata.height - position.userImageSize.height
RoomLeft == position.posterMetadata.width - position.userImageSize.width

\* C18: when the overlay is no larger than the poster, the returned
\* position keeps it inside the poster for every position spec:
\* 0 <= left <= W - w and 0 <= top <= H - h.
C18_InsidePoster ==
  (position.returned /\ RoomTop >= 0 /\ RoomLeft >= 0) =>
    /\ position.result.top \in 0..RoomTop
    /\ position.result.left \in 0..RoomLeft

\* A percentage beyond the poster and a negative pixel value are clamped.
C18_Witness ==
  /\ position.returned /\ RoomTop > 0 /\ RoomLeft > 0
  /\ position.positionConfig.custom.present
  /\ position.positionConfig.custom.top = [kind |-> "pct", val |-> 150]
  /\ position.positionConfig.custom.left = [kind |-> "px", val |-> -10]
  /\ position.result = [top |-> RoomTop, left |-> 0]


\* The table of the nine presets for a margin m, with centres rounded to
\* the nearest pixel.
PresetTable(p, m) ==
  [top |-> CASE p \in {"top-left", "top-center", "top-right"} -> m
             [] p \in {"center-left", "center", "center-right"} ->
                  Round(RoomTop * (Scale \div 2))
             [] OTHER -> RoomTop - m,
   left |-> CASE p \in {"top-left", "center-left", "bottom-left"} -> m
              [] p \in {"top-center", "center", "bottom-center"} ->
                   Round(RoomLeft * (Scale \div 2))
              [] OTHER -> RoomLeft - m]

\* The overlay and a margin of m on both sides fit in the poster.
FitsWithMargin(m) == 2 * m <= RoomTop /\ 2 * m <= RoomLeft

\* C19: for each of the nine presets, when the overlay fits with the
\* margin, the returned position is the table value for the supplied
\* margin m; the default margin 20 is used only when the margin is
\* unspecified, so a supplied margin, including 0, is used as given.
C19_PresetTable ==
  LET cfg == position.positionConfig
      m == IF cfg.margin.def THEN cfg.margin.val ELSE DefaultMargin
  IN  (position.returned /\ cfg.preset \in Presets /\ FitsWithMargin(m)) =>
        position.result = PresetTable(cfg.preset, m)

\* C20: when the overlay is larger than the poster on an axis, the
\* returned coordinate of that axis is 0 for every position spec, and top
\* and left are never negative.
C20_OversizeIsZero ==
  position.returned =>
    /\ RoomTop < 0 => position.result.top = 0
    /\ RoomLeft < 0 => position.result.left = 0
    /\ position.result.top >= 0
    /\ position.result.left >= 0

\* An overlay taller and wider than the poster, placed bottom-right.
C20_Witness ==
  /\ position.returned /\ RoomTop < 0 /\ RoomLeft < 0
  /\ position.positionConfig.preset = "bottom-right"
  /\ position.positionConfig.margin = Num(15)
  /\ position.result = [top |-> 0, left |-> 0]


\* ------------------------------------------------------ text and overlay
FontSizes == {Undefined, Num(0), Num(30), Num(500)}

NoTextCustom ==
  [present |-> FALSE, x |-> [kind |-> "undefined", val |-> 0],
   y |-> [kind |-> "undefined", val |-> 0], align |-> "none"]

SomeTextCustom ==
  [present |-> TRUE, x |-> [kind |-> "pct", val |-> 25],
   y |-> [kind |-> "px", val |-> 150], align |-> "end"]

\* { preset, margin, fontSize }
TextPresetConfigs ==
  {[preset |-> p, margin |-> m, fontSize |-> f, custom |-> NoTextCustom,
    x |-> Undefined, y |-> Undefined, align |-> "none"] :
     p \in Presets \cup {"diagonal"}, m \in {Undefined, Num(0), Num(15)},
     f \in FontSizes}

\* { custom: { x, y, align }, fontSize }
TextCustomConfigs ==
  {[preset |-> "none", margin |-> Undefined, fontSize |-> f,
    custom |-> [present |-> TRUE, x |-> cx, y |-> cy, align |-> a],
    x |-> Undefined, y |-> Undefined, align |-> "none"] :
     cx \in CustomValues, cy \in CustomValues, a \in {"none", "start", "end"},
     f \in {Undefined, Num(30)}}

\* { x, y, align, fontSize } and {}
TextLegacyConfigs ==
  {[preset |-> "none", margin |-> Undefined, fontSize |-> f,
    custom |-> NoTextCustom, x |-> vx, y |-> vy, align |-> a] :
     vx \in LegacyValues, vy \in LegacyValues, a \in {"none", "end"},
     f \in {Undefined, Num(30)}}

TextMixedConfigs ==
  {[preset |-> p, margin |-> Num(15), fontSize |-> Num(30), custom |-> c,
    x |-> vx, y |-> Num(50), align |-> "start"] :
     p \in {"none", "center", "diagonal"}, c \in {NoTextCustom, SomeTextCustom},
     vx \in {Undefined, Num(0)}}

TextConfigs ==
  TextPresetConfigs \cup TextCustomConfigs \cup TextLegacyConfigs
    \cup TextMixedConfigs

\* A call of calculateUserImagePosition or of calculateTextPosition about
\* to be made.
PlacementInit ==
  /\ InitWith({1})
  /\ \/ \E pm \in Sizes, us \in Sizes, cfg \in PositionConfigs :
          position = [posterMetadata |-> pm, userImageSize |-> us,
                      positionConfig |-> cfg, returned |-> FALSE,
                      result |-> [top |-> 0, left |-> 0]]
     \/ \E im \in Sizes, cfg \in TextConfigs :
          position = [imageMetadata |-> im, textConfig |-> cfg,
                      returned |-> FALSE,
                      result |-> [x |-> 0, y |-> 0, textAnchor |-> "middle"]]

OverlayCall == position # NoPosition /\ "positionConfig" \in DOMAIN position
TextCall == position # NoPosition /\ "textConfig" \in DOMAIN position

CalculateOverlay ==
  /\ OverlayCall
  /\ Calculate

CalculateText ==
  /\ TextCall
  /\ ~position.returned
  /\ position' = [position EXCEPT
                    !.returned = TRUE,
                    !.result = calculateTextPosition(position.imageMetadata,
                                                     position.textConfig)]
  /\ UNCHANGED <<pc, req, operation, users, idx, results, userResult, response,
                 trace, db, queryResponse, operationId, outbox, manager, monitor,
                 refreshes, sendMessage>>

PlacementNext ==
  \/ CalculateOverlay
  \/ CalculateText

PlacementSpec == PlacementInit /\ [][PlacementNext]_vars

OverlayReturned == OverlayCall /\ position.returned
TextReturned == TextCall /\ position.returned

\* The overlay specification without the fields a branch must ignore.
OnlyPreset(cfg) == [cfg EXCEPT !.custom = NoCustom, !.top = Undefined, !.left = Undefined]
OnlyCustom(cfg) == [cfg EXCEPT !.top = Undefined, !.left = Undefined]
TextOnlyPreset(cfg) ==
  [cfg EXCEPT !.custom = NoTextCustom, !.x = Undefined, !.y = Undefined,
              !.align = "none"]
TextOnlyCustom(cfg) == [cfg EXCEPT !.x = Undefined, !.y = Undefined, !.align = "none"]

PresetSupplied(cfg) == cfg.preset \in Presets \cup {"diagonal"}

\* C21: when a position specification supplies more than one set of
\* fields, a supplied preset makes the custom and direct fields without
\* influence on the result, and a supplied custom without preset makes the
\* direct fields without influence, for the overlay and for the text.
C21_Precedence ==
  /\ OverlayReturned =>
       LET cfg == position.positionConfig
           pm == position.posterMetadata
           us == position.userImageSize
       IN  /\ PresetSupplied(cfg) =>
                position.result = calculateUserImagePosition(pm, us, OnlyPreset(cfg))
           /\ (cfg.preset = "none" /\ cfg.custom.present) =>
                position.result = calculateUserImagePosition(pm, us, OnlyCustom(cfg))
  /\ TextReturned =>
       LET cfg == position.textConfig
           im == position.imageMetadata
       IN  /\ PresetSupplied(cfg) =>
                position.result = calculateTextPosition(im, TextOnlyPreset(cfg))
           /\ (cfg.preset = "none" /\ cfg.custom.present) =>
                position.result = calculateTextPosition(im, TextOnlyCustom(cfg))

\* A text specification with preset, custom and direct fields: the preset
\* decides, and custom alone or the direct fields alone would give another
\* result.
C21_Witness ==
  /\ TextReturned
  /\ position.textConfig.preset = "center"
  /\ position.textConfig.custom = SomeTextCustom
  /\ position.textConfig.y = Num(50)
  /\ position.result.textAnchor = "middle"
  /\ position.result #
       calculateTextPosition(position.imageMetadata,
                             [position.textConfig EXCEPT !.preset = "none"])
  /\ position.result #
       calculateTextPosition(position.imageMetadata,
                             [position.textConfig EXCEPT !.preset = "none",
                                                         !.custom = NoTextCustom])


\* The pixel value a direct coordinate resolves to when every supplied
\* value, 0 included, is used and only a missing one takes the default.
Direct(v, default) == IF v.def THEN Px(v.val) ELSE default

LegacyOverlay(cfg) ==
  cfg.preset = "none" /\ ~cfg.custom.present

\* C22: in legacy resolution every supplied axis value, including 0, is
\* the pixel coordinate before clamping and only an absent axis takes the
\* default (top 100, left 20 for the overlay; x = W/2, y = H - 50 for the
\* text); a specification without preset, custom and direct coordinates
\* resolves to the defaults, with anchor middle for the text.
C22_LegacyValuesUsed ==
  /\ (OverlayReturned /\ LegacyOverlay(position.positionConfig)) =>
       LET cfg == position.positionConfig
       IN  position.result =
             [top |-> Round(Clamp(Direct(cfg.top, Px(DefaultTop)), Px(RoomTop))),
              left |-> Round(Clamp(Direct(cfg.left, Px(DefaultLeft)), Px(RoomLeft)))]
  /\ (TextReturned /\ LegacyOverlay(position.textConfig)) =>
       LET cfg == position.textConfig
           W == position.imageMetadata.width
           H == position.imageMetadata.height
           f == IF cfg.fontSize.def /\ cfg.fontSize.val # 0
                  THEN cfg.fontSize.val ELSE DefaultFontSize
           c == ClampText(Direct(cfg.x, W * (Scale \div 2)),
                          Direct(cfg.y, Px(H - DefaultTextRise)), f, W, H)
       IN  /\ position.result.x = Round(c.x)
           /\ position.result.y = Round(c.y)
           /\ (~cfg.x.def /\ ~cfg.y.def) => position.result.textAnchor = "middle"


\* textConfig.fontSize || 40
EffectiveFontSize(cfg) == OrElse(cfg.fontSize, DefaultFontSize)

TextPresetTable(p, m, f, W, H) ==
  LET q == IF p \in Presets THEN p ELSE "bottom-center"
  IN  [x |-> CASE q \in {"top-left", "center-left", "bottom-left"} -> Px(m)
               [] q \in {"top-center", "center", "bottom-center"} -> W * (Scale \div 2)
               [] OTHER -> Px(W - m),
       y |-> CASE q \in {"top-left", "top-center", "top-right"} -> Px(f + m)
               [] q \in {"center-left", "center", "center-right"} -> H * (Scale \div 2)
               [] OTHER -> Px(H - m),
       textAnchor |-> CASE q \in {"top-left", "center-left", "bottom-left"} -> "start"
                        [] q \in {"top-center", "center", "bottom-center"} -> "middle"
                        [] OTHER -> "end"]

\* C24: for a text preset with margin m and font size f the result is the
\* table value (x = m, W/2, W-m; y = f+m, H/2, H-m; anchor start, middle,
\* end), clamped and rounded, and a preset name that is none of the nine
\* resolves as bottom-center.
C24_TextPresetTable ==
  (TextReturned /\ PresetSupplied(position.textConfig)) =>
    LET cfg == position.textConfig
        W == position.imageMetadata.width
        H == position.imageMetadata.height
        m == IF cfg.margin.def THEN cfg.margin.val ELSE DefaultTextMargin
        f == EffectiveFontSize(cfg)
        t == TextPresetTable(cfg.preset, m, f, W, H)
        c == ClampText(t.x, t.y, f, W, H)
    IN  position.result = [x |-> Round(c.x), y |-> Round(c.y),
                           textAnchor |-> t.textAnchor]


\* What one axis of a custom specification resolves to: the percentage of
\* the extent, the pixels, or the default when the axis is not given.
Axis(c, extent, default) ==
  CASE c.kind = "pct" -> (c.val * extent * Scale) \div 100
    [] c.kind = "px" -> c.val * Scale
    [] OTHER -> default

CustomOnly(cfg) == cfg.preset = "none" /\ cfg.custom.present

\* C25: in custom resolution each axis is resolved on its own: a bare
\* number is pixels, a value with % is that percentage of the container
\* dimension of the axis (top, y of H; left, x of W), an axis not given
\* keeps the default, and for text an explicit align replaces the anchor.
C25_CustomAxes ==
  /\ (OverlayReturned /\ CustomOnly(position.positionConfig)) =>
       LET custom == position.positionConfig.custom
           pm == position.posterMetadata
       IN  position.result =
             [top |-> Round(Clamp(Axis(custom.top, pm.height, Px(DefaultTop)),
                                  Px(RoomTop))),
              left |-> Round(Clamp(Axis(custom.left, pm.width, Px(DefaultLeft)),
                                   Px(RoomLeft)))]
  /\ (TextReturned /\ CustomOnly(position.textConfig)) =>
       LET cfg == position.textConfig
           W == position.imageMetadata.width
           H == position.imageMetadata.height
           c == ClampText(Axis(cfg.custom.x, W, W * (Scale \div 2)),
                          Axis(cfg.custom.y, H, Px(H - DefaultTextRise)),
                          EffectiveFontSize(cfg), W, H)
       IN  position.result =
             [x |-> Round(c.x), y |-> Round(c.y),
              textAnchor |-> IF cfg.custom.align = "none" THEN "middle"
                             ELSE cfg.custom.align]

\* top given as a percentage, left as pixels, both inside the poster.
C25_Witness ==
  /\ OverlayReturned
  /\ position.positionConfig.custom = SomeCustom
  /\ position.positionConfig.preset = "none"
  /\ position.posterMetadata = [width |-> 375, height |-> 375]
  /\ position.userImageSize = [width |-> 125, height |-> 125]
  /\ position.result = [top |-> 94, left |-> 150]


\* ------------------------------------------------------- provider replies
\* The TypeError of whatsappResponse.data.messages[0].id when the reply
\* has no messages entry.
NoMessagesError ==
  [message |-> "Cannot read properties of undefined (reading 'id')",
   code |-> "none", providerCode |-> "none"]

\* await axios.post(...) returns a 2xx reply that does not carry
\* messages[0].id: without a messages entry the dereference after
\* userResult.status = 'success' throws into the catch block; with an
\* entry that has no id the message id stays undefined.
SendUnreadable ==
  \E h \in Handlers :
    /\ pc[h] = "send"
    /\ \/ CatchUser(h, "send", NoMessagesError)
       \/ /\ userResult' = [userResult EXCEPT ![h].status = "success"]
          /\ operation' = [operation EXCEPT ![h] = CountSuccess(@)]
          /\ pc' = [pc EXCEPT ![h] = "rec_pending"]
          /\ Log(h, "send", TRUE)
    /\ Accepted(h)
    /\ UNCHANGED <<req, users, idx, results, response, db, queryResponse>>
    /\ UNCHANGED <<operationId, surroundings>>

ReplyNext ==
  \/ SubmitBroadcast
  \/ HandlerStep
  \/ SendUnreadable

\* The submit handler with a provider whose 2xx replies need not carry a
\* message id.
ReplySpec == Init /\ [][ReplyNext]_vars

\* The post made for the recipient of result i was accepted.
AcceptedFor(h, i) ==
  \E k \in 1..Len(outbox[h]) :
    outbox[h][k].payload.to = results[h][i].userId /\ outbox[h][k].accepted

WellFormed(h, i) ==
  LET r == results[h][i]
  IN  /\ r.status \in {"success", "failed"}
      /\ r.messageId # <<>> <=> r.status = "success"
      /\ (r.error # "none" /\ r.errorCode # "none") <=> r.status = "failed"
      /\ r.error # "none" <=> r.errorCode # "none"
      /\ AcceptedFor(h, i) => r.status # "failed"

\* C26: every entry of a completed operation's result list has status
\* success or failed, carries a message id exactly when it is a success,
\* carries an error message and an error code exactly when it is failed,
\* and a recipient whose message the provider accepted is not recorded as
\* failed.
C26_ResultsWellFormed ==
  \A h \in Handlers :
    operation[h].status = "completed" =>
      /\ operation[h].results = results[h]
      /\ \A i \in 1..Len(results[h]) : WellFormed(h, i)


\* ------------------------------------------------- personalized messages
\* Position in the handler's trace of the successful completion of the call
\* for recipient i, or 0 when there is none.
SucceededAt(h, call, i) ==
  LET at == {k \in 1..Len(trace[h]) : trace[h][k] = Event(call, i, TRUE)}
  IN  IF at = {} THEN 0 ELSE CHOOSE k \in at : TRUE

\* Index of the recipient a post is addressed to.
RecipientOf(h, k) ==
  CHOOSE i \in 1..Len(users[h]) : users[h][i].user_id = outbox[h][k].payload.to

\* C27: in a personalizing operation a message is posted for a recipient
\* only after that recipient's image was composed and its upload succeeded,
\* the template links the URL returned by that recipient's own upload, and
\* a result carries a personalized image URL exactly when that recipient's
\* upload succeeded, whatever the outcome of the send.
C27_OwnImageThenSend ==
  \A h \in Handlers :
    Personalizing(req[h]) =>
      /\ \A k \in 1..Len(outbox[h]) :
           LET i == RecipientOf(h, k)
               p == outbox[h][k].payload
           IN  /\ 0 < SucceededAt(h, "compose", i)
               /\ SucceededAt(h, "compose", i) < SucceededAt(h, "upload", i)
               /\ p.type = "template"
               /\ p.link = <<"personalized", h, users[h][i].user_id>>
               /\ \A j \in 1..Len(results[h]) :
                    results[h][j].personalizedImageUrl = p.link => j = i
      /\ \A k \in 1..Len(trace[h]) :
           trace[h][k].call = "send" =>
             SucceededAt(h, "upload", trace[h][k].user) \in 1..(k - 1)
      /\ \A i \in 1..Len(results[h]) :
           /\ results[h][i].personalizedImageUrl # <<>>
                <=> SucceededAt(h, "upload", i) > 0
           /\ results[h][i].personalizedImageUrl \in
                {<<>>, <<"personalized", h, users[h][i].user_id>>}

C27_Witness ==
  \E h \in Handlers :
    /\ Personalizing(req[h])
    /\ pc[h] = "done"
    /\ Len(results[h]) = 2
    /\ Len(outbox[h]) = 1
    /\ results[h][1].status = "failed"
    /\ results[h][1].personalizedImageUrl # <<>>
    /\ results[h][2].status = "failed"
    /\ results[h][2].personalizedImageUrl = <<>>


\* ------------------------------------------------- concurrent refreshes
\* POST /refresh-token: tokenManager.forceRefresh() starts a refreshToken()
\* whatever other refreshes are in flight.
ForceRefresh ==
  /\ refreshes.inflight < MaxForce
  /\ refreshes' = [refreshes EXCEPT !.inflight = @ + 1]
  /\ UNCHANGED <<pc, req, operation, users, idx, results, userResult, response,
                 trace, db, queryResponse, operationId, outbox, manager, monitor,
                 position, sendMessage>>

\* await this.refreshToken() of a forceRefresh returns or throws.
ForceRefreshReturns ==
  /\ refreshes.inflight > 0
  /\ \/ /\ manager.issued < MaxRefresh
        /\ manager' = Refreshed(manager)
        /\ refreshes' = [inflight |-> refreshes.inflight - 1, last |-> "ok"]
     \/ /\ manager' = manager
        /\ refreshes' = [inflight |-> refreshes.inflight - 1, last |-> "failed"]
  /\ UNCHANGED <<pc, req, operation, users, idx, results, userResult, response,
                 trace, db, queryResponse, operationId, outbox, monitor,
                 position, sendMessage>>

\* Text broadcasts, whose sends read the token.
RefreshRequests ==
  {r \in BroadcastRequests : ~Personalizing(r)}

SubmitText == SubmitFrom(RefreshRequests)

RefreshNext ==
  \/ SubmitText
  \/ SaveCreated
  \/ FindRecipients
  \/ SetPending
  \/ SaveEmpty
  \/ SaveCount
  \/ Send
  \/ RecordPending
  \/ SaveFinal
  \/ SaveError
  \/ RefreshForSend
  \/ TimerTick
  \/ ValidateCurrentToken
  \/ MonitorRefresh
  \/ ForceRefresh
  \/ ForceRefreshReturns

\* The token manager with its monitoring, the refreshes of getCurrentToken
\* and forced refreshes, all of which may be in flight together.
RefreshSpec == Init /\ [][RefreshNext]_vars

\* Refreshes in flight: the monitoring's, the submit handler's and the
\* forced ones.
InFlight ==
  (IF monitor = "refreshing" THEN 1 ELSE 0)
  + Cardinality({h \in Handlers : pc[h] = "refresh"})
  + refreshes.inflight

\* C28: under every interleaving of the periodic validation, the refreshes
\* of getCurrentToken and forced refreshes, the manager's current token
\* equals process.env.WHATSAPP_TOKEN, and a refresh that fails leaves the
\* current token and the expiry time as they were.
C28_TokenMatchesEnv ==
  /\ [](manager.currentToken = manager.envToken)
  /\ [][refreshes'.last = "failed" =>
          /\ manager'.currentToken = manager.currentToken
          /\ manager'.tokenExpiryTime = manager.tokenExpiryTime]_vars

\* A refresh failed while two others were in flight, after an earlier one
\* had replaced the token.
C28_Witness ==
  /\ refreshes.last = "failed"
  /\ InFlight >= 2
  /\ manager.currentToken > 0
  /\ manager.currentToken = manager.envToken


\* ----------------------------------------------- progress seen by queries
\* The records a status query can read or has read.
Readable ==
  {db[id] : id \in DOMAIN db}
    \cup (IF queryResponse.status = 200 THEN {queryResponse.data} ELSE {})

\* C29: a record read while its operation is running shows no partial
\* progress: with status processing it has no results, no successes, no
\* failures and as many pending as targeted; results are readable only in
\* a record whose status is terminal.
C29_NoPartialProgress ==
  \A r \in Readable :
    /\ r.status = "processing" =>
         /\ r.results = <<>>
         /\ r.summary.successCount = 0
         /\ r.summary.failureCount = 0
         /\ r.summary.pendingCount = r.summary.totalTargeted
    /\ r.results # <<>> => TerminalStatus(r)

\* A query read the record of an operation that had already counted a
\* success and a failure in memory.
C29_Witness ==
  /\ queryResponse.status = 200
  /\ queryResponse.data.status = "processing"
  /\ queryResponse.data.summary.totalTargeted >= 2
  /\ \E h \in Handlers :
       /\ operationId[h] = queryResponse.id
       /\ operation[h].summary.successCount >= 1
       /\ operation[h].summary.failureCount >= 1
       /\ Len(results[h]) >= 2


\* ------------------------------------------------------- /send-message
\* Files the cleanup keeps: files.length > 10, files.slice(10).
KeepFiles == 10

\* Files are identified by the clock value of their write, which is also
\* their modification time. The n most recently modified files of a
\* directory: files.sort((a, b) => b.time - a.time).slice(0, n).
Newest(dir, n) == {f \in dir : Cardinality({g \in dir : g > f}) < n}

\* The files a failing cleanup leaves after k unlinkSync calls went through:
\* forEach visits files.slice(10) from the most recent one on.
Unlinked(dir, k) ==
  LET excess == dir \ Newest(dir, KeepFiles)
  IN  dir \ Newest(excess, k)

\* A request arrives on a free slot; the validation answers 400 or the
\* downloads start.
Receive ==
  \E s \in Slots :
    /\ senders[s].pc \in {"idle", "done"}
    /\ \/ senders' = [senders EXCEPT ![s] = [NoSender EXCEPT !.pc = "composing"]]
       \/ senders' = [senders EXCEPT ![s] =
                        [NoSender EXCEPT !.pc = "done", !.response = "error"]]
    /\ UNCHANGED <<pc, req, operation, users, idx, results, userResult, response,
                   trace, db, queryResponse, operationId, outbox, manager, monitor,
                   position, refreshes, publicDir, now>>

\* The downloads and the image processing end: an error is answered, or
\* fs.writeFileSync(outputPath, finalImage) writes the composite file and
\* the wait before the send starts.
WriteComposite ==
  \E s \in Slots :
    /\ senders[s].pc = "composing"
    /\ \/ /\ senders' = [senders EXCEPT ![s].pc = "done", ![s].response = "error"]
          /\ UNCHANGED <<publicDir, now>>
       \/ /\ now < MaxWrites
          /\ now' = now + 1
          /\ publicDir' = publicDir \cup {now'}
          /\ senders' = [senders EXCEPT ![s].pc = "sending", ![s].file = now']
    /\ UNCHANGED <<pc, req, operation, users, idx, results, userResult, response,
                   trace, db, queryResponse, operationId, outbox, manager, monitor,
                   position, refreshes>>

\* await axios.post(...) of the template ends: an error is answered, or the
\* cleanup runs, to its end or until a file system call throws, and the
\* request is answered "sent".
SendTemplate ==
  \E s \in Slots :
    /\ senders[s].pc = "sending"
    /\ \/ /\ senders' = [senders EXCEPT ![s].pc = "done", ![s].response = "error"]
          /\ publicDir' = publicDir
       \/ /\ publicDir' = Newest(publicDir, KeepFiles)
          /\ senders' = [senders EXCEPT ![s].pc = "done", ![s].response = "sent",
                                        ![s].cleanup = "done"]
       \/ /\ \E k \in 0..Cardinality(publicDir) :
               /\ k = 0 \/ k < Cardinality(publicDir \ Newest(publicDir, KeepFiles))
               /\ publicDir' = Unlinked(publicDir, k)
          /\ senders' = [senders EXCEPT ![s].pc = "done", ![s].response = "sent",
                                        ![s].cleanup = "failed"]
    /\ UNCHANGED <<pc, req, operation, users, idx, results, userResult, response,
                   trace, db, queryResponse, operationId, outbox, manager, monitor,
                   position, refreshes, now>>

SendMessageNext ==
  \/ Receive
  \/ WriteComposite
  \/ SendTemplate

\* Concurrent /send-message requests sharing the public directory.
SendMessageSpec == Init /\ [][SendMessageNext]_vars

\* The request of slot s is answered "sent" in this step.
AnswersSent(s) == senders'[s].response = "sent" /\ senders[s].response # "sent"

\* C30: after the cleanup step of a request that sent its message at most
\* 10 composite files remain and they are the 10 most recently modified;
\* no cleanup deletes the composite file of another request whose message
\* has not been sent yet; a cleanup failure still answers "sent".
C30_CleanupKeepsTen ==
  [][\A s \in Slots :
       /\ AnswersSent(s) =>
            /\ Cardinality(publicDir') <= KeepFiles
            /\ publicDir' = Newest(publicDir, KeepFiles)
       /\ senders'[s].pc = "sending" => senders'[s].file \in publicDir'
       /\ senders'[s].cleanup = "failed" => senders'[s].response = "sent"]_vars

====
